---- MODULE Spec2Model ----
(***************************************************************************)
(* A model of the scroll-triggered animation utilities of src/src/App.jsx: *)
(* the useInView hook, and the Counter and Typewriter components that      *)
(* consume it.                                                             *)
(*                                                                         *)
(* Execution model.  The page runs on the browser's single-threaded event  *)
(* loop.  Every action below is one task of that loop: the flush of the    *)
(* mount effects of a component, the delivery of one batch of intersection *)
(* entries to an observer callback, one firing of a timer callback, one    *)
(* re-render of a component together with the effects whose dependencies   *)
(* changed (cleanup of the previous run, then the body), one unmount with  *)
(* the cleanups of the last effect runs.  A state update (setX) is applied *)
(* to the component's state at once; the effects that depend on it run in  *)
(* the later re-render task, so a timer task may come before that task.    *)
(*                                                                         *)
(* Units.  Thresholds and intersection ratios are in percent (0.15 in the  *)
(* source is 15 here).  JavaScript numbers are modelled as non-negative    *)
(* IEEE 754 doubles, with Infinity and NaN.                                *)
(***************************************************************************)
EXTENDS Integers, Sequences, FiniteSets, TLC

(* ------------------------------ bounds -------------------------------- *)

\* largest target value of a Counter
MaxEnd == 3
\* largest of the short durations of a Counter, in ms
MaxDuration == 18
\* longest text of a Typewriter
MaxLen == 3
\* most entries in one delivered batch of intersection entries
MaxBatch == 2
\* most prop changes a parent applies to a mounted component
MaxPropChanges == 1
\* the tick counter cTicks stops counting here (a timer that never ends ticks forever)
MaxTicksCounted == 8
\* largest of the small finding numbers
MaxNumber == 21

(* ----------------------- JavaScript numbers --------------------------- *)

\* A JavaScript number is an IEEE 754 double.  A finite non-negative one is
\* m * 2^e with m a sequence of MantBits bits, most significant first, whose
\* first bit is 1; zero has all bits 0 and e = 0.  Every operation rounds its
\* exact result to the nearest such number, ties to even.
MantBits == 53

Zeros(n) == [i \in 1..n |-> 0]

RECURSIVE IntBits(_)
IntBits(n) == IF n = 0 THEN <<>> ELSE Append(IntBits(n \div 2), n % 2)

RECURSIVE BitsInt(_)
BitsInt(b) == IF b = <<>> THEN 0 ELSE 2 * BitsInt(SubSeq(b, 1, Len(b) - 1)) + b[Len(b)]

RECURSIVE StripLeading(_)
StripLeading(b) == IF b = <<>> \/ b[1] = 1 THEN b ELSE StripLeading(Tail(b))

RECURSIVE StripTrailing(_)
StripTrailing(b) ==
  IF b = <<>> \/ b[Len(b)] = 1 THEN b ELSE StripTrailing(SubSeq(b, 1, Len(b) - 1))

RECURSIVE Inc(_)
Inc(b) ==
  IF b = <<>> THEN <<1>>
  ELSE IF b[Len(b)] = 0 THEN [b EXCEPT ![Len(b)] = 1]
  ELSE Append(Inc(SubSeq(b, 1, Len(b) - 1)), 0)

RECURSIVE Pow2(_)
Pow2(n) == IF n = 0 THEN 1 ELSE 2 * Pow2(n - 1)

\* the w bits of n < 2^w
PadBits(n, w) == Zeros(w - Len(IntBits(n))) \o IntBits(n)

\* bit sequences are added in chunks of this many bits
Chunk == 24

\* the bits of x + y + c for bit sequences x, y of equal length and a carry c
RECURSIVE AddBits(_, _, _)
AddBits(x, y, c) ==
  LET n == Len(x)
      w == IF n <= Chunk THEN n ELSE Chunk
      sum == BitsInt(SubSeq(x, n - w + 1, n)) + BitsInt(SubSeq(y, n - w + 1, n)) + c
      low == PadBits(sum % Pow2(w), w)
  IN IF n <= Chunk
       THEN (IF sum >= Pow2(w) THEN <<1>> \o low ELSE low)
       ELSE AddBits(SubSeq(x, 1, n - w), SubSeq(y, 1, n - w), sum \div Pow2(w)) \o low

RECURSIVE BitsGe(_, _)
BitsGe(x, y) ==
  IF x = <<>> THEN TRUE
  ELSE IF x[1] # y[1] THEN x[1] > y[1]
  ELSE BitsGe(Tail(x), Tail(y))

Zero == [k |-> "fin", m |-> Zeros(MantBits), e |-> 0]
Infinity == [k |-> "inf", m |-> Zeros(MantBits), e |-> 0]
NaN == [k |-> "nan", m |-> Zeros(MantBits), e |-> 0]

\* the double nearest to (the integer with bits b) * 2^e, ties to even
Round(b, e) ==
  LET s == StripLeading(b)
      L == Len(s)
  IN IF L = 0 THEN Zero
     ELSE IF L <= MantBits
       THEN [k |-> "fin", m |-> s \o Zeros(MantBits - L), e |-> e - (MantBits - L)]
     ELSE LET top == SubSeq(s, 1, MantBits)
              half == s[MantBits + 1] = 1
              rest == \E i \in (MantBits + 2)..L : s[i] = 1
              up == half /\ (rest \/ top[MantBits] = 1)
              r == IF up THEN Inc(top) ELSE top
          IN IF Len(r) > MantBits
               THEN [k |-> "fin", m |-> SubSeq(r, 1, MantBits), e |-> e + (L - MantBits) + 1]
               ELSE [k |-> "fin", m |-> r, e |-> e + (L - MantBits)]

\* the number literal or integer prop n
Num(n) == Round(IntBits(n), 0)

\* the smallest x * 2^j, j >= 0, that is at least y
RECURSIVE ScaleUp(_, _)
ScaleUp(x, y) == IF x >= y THEN x ELSE ScaleUp(2 * x, y)

\* the largest y * 2^j, j >= 0, that is at most x (for y <= x)
RECURSIVE ScaleTo(_, _)
ScaleTo(y, x) == IF 2 * y > x THEN y ELSE ScaleTo(2 * y, x)

RECURSIVE Log2(_)
Log2(x) == IF x <= 1 THEN 0 ELSE 1 + Log2(x \div 2)

\* n further quotient bits of r / den (r < den), then one bit that tells
\* whether a remainder is left
RECURSIVE DivBits(_, _, _)
DivBits(r, den, n) ==
  IF n = 0 THEN <<IF r # 0 THEN 1 ELSE 0>>
  ELSE IF 2 * r >= den THEN <<1>> \o DivBits(2 * r - den, den, n - 1)
  ELSE <<0>> \o DivBits(2 * r, den, n - 1)

\* a / b on non-negative numbers: x/0 is Infinity, 0/0 is NaN.  The finite
\* operands of this program's divisions are integers times a power of two,
\* short enough for their odd parts to be divided as integers.
JSDiv(a, b) ==
  IF a.k = "nan" \/ b.k = "nan" THEN NaN
  ELSE IF a.k = "inf" THEN (IF b.k = "inf" THEN NaN ELSE Infinity)
  ELSE IF b.k = "inf" THEN Zero
  ELSE IF b = Zero THEN (IF a = Zero THEN NaN ELSE Infinity)
  ELSE IF a = Zero THEN Zero
  ELSE LET sa == StripTrailing(a.m)
           sb == StripTrailing(b.m)
           na == BitsInt(sa)
           nb == BitsInt(sb)
           ea == a.e + (MantBits - Len(sa))
           eb == b.e + (MantBits - Len(sb))
           num == ScaleUp(na, nb)
           den == ScaleTo(nb, num)
           \* num / den is in [1, 2); the first quotient bit weighs 2^lead
           lead == (ea - eb) - Log2(num \div na) + Log2(den \div nb)
       IN Round(<<1>> \o DivBits(num - den, den, MantBits), lead - MantBits - 1)

\* a + b on non-negative numbers
JSAdd(a, b) ==
  IF a.k = "nan" \/ b.k = "nan" THEN NaN
  ELSE IF a.k = "inf" \/ b.k = "inf" THEN Infinity
  ELSE IF a = Zero THEN b
  ELSE IF b = Zero THEN a
  ELSE LET lo == IF a.e < b.e THEN a.e ELSE b.e
           xa == a.m \o Zeros(a.e - lo)
           xb == b.m \o Zeros(b.e - lo)
           n == IF Len(xa) > Len(xb) THEN Len(xa) ELSE Len(xb)
       IN Round(AddBits(Zeros(n - Len(xa)) \o xa, Zeros(n - Len(xb)) \o xb, 0), lo)

\* a >= b: every comparison with NaN is false
JSGe(a, b) ==
  IF a.k = "nan" \/ b.k = "nan" THEN FALSE
  ELSE IF a.k = "inf" THEN TRUE
  ELSE IF b.k = "inf" THEN FALSE
  ELSE IF b = Zero THEN TRUE
  ELSE IF a = Zero THEN FALSE
  ELSE IF a.e # b.e THEN a.e > b.e
  ELSE BitsGe(a.m, b.m)

\* Math.floor(a)
JSFloor(a) ==
  IF a.k # "fin" \/ a.e >= 0 THEN a
  ELSE IF -a.e >= MantBits THEN Zero
  ELSE Round(SubSeq(a.m, 1, MantBits + a.e), 0)

IsNumber(a) == a.k = "fin"

(* --------------------------- configuration ---------------------------- *)

\* the period of the Counter's interval timer, and the divisor of its step
TickMs == 16
StepDivisor == 16

\* the threshold used when options.threshold is falsy
DefaultThreshold == 15

\* options.threshold as passed by each component; NoOption is "not given"
NoOption == -1
CounterThreshold == 50
TypewriterThreshold == 30
RevealThreshold == 10

\* the instances of useInView: a bare hook, and one component of each kind
Inst == {"Hook", "Reveal", "Counter", "Typewriter"}

\* thresholds a caller of the bare hook configures
ThresholdOptions == {NoOption, 0, 10, 50, 100}

\* visible ratios the browser reports
Ratios == {0, 40, 100}

\* the durations of a Counter: every short one, and two long ramps
Durations == (0..MaxDuration) \cup {40, 96}

Alphabet == {"a", "b"}

RECURSIVE SeqsUpTo(_)
SeqsUpTo(n) ==
  IF n = 0 THEN {<<>>}
  ELSE LET shorter == SeqsUpTo(n - 1)
       IN shorter \cup {Append(s, c) : s \in {x \in shorter : Len(x) = n - 1}, c \in Alphabet}

Texts == SeqsUpTo(MaxLen)

\* the texts a parent changes the prop to
PropTexts == {<<>>, <<"b">>, <<"b", "a">>}

VARIABLES
  phase,        \* per instance: "absent", "rendered", "live", "unmounted"
  threshold,    \* per instance: options.threshold given to useInView
  refEl,        \* per instance: ref.current is an element
  el,           \* per instance: the el captured by the effect: "unset", "null", "element"
  obsThreshold, \* per instance: threshold of the observer the effect created
  observing,    \* per instance: number of observations registered for the element
  isInView,     \* per instance: the isInView state of useInView
  lastFirst,    \* per instance: first entry of the last delivered batch
  everMet,      \* per instance: some delivered entry had a ratio at or above the threshold
  direction,    \* Reveal: prop direction
  opacity,      \* Reveal: rendered style.opacity
  transform,    \* Reveal: rendered style.transform
  end,          \* Counter: prop end
  duration,     \* Counter: prop duration
  count,        \* Counter: state count (a JavaScript number)
  cTimers,      \* Counter: pending interval timers with their closures
  cCleanup,     \* Counter: timer id the last effect's cleanup clears, 0 if none
  cDeps,        \* Counter: dependency values of the last effect run
  cRuns,        \* Counter: number of setInterval calls so far
  cTicks,       \* Counter: number of interval callbacks run since the last setInterval
  text,         \* Typewriter: prop text
  displayed,    \* Typewriter: state displayed
  started,      \* Typewriter: state started
  twTimeouts,   \* Typewriter: pending one-shot delay timers
  twIntervals,  \* Typewriter: pending per-character interval timers
  twCleanup,    \* Typewriter: timeout id the last effect's cleanup clears, 0 if none
  twDeps,       \* Typewriter: dependency values of the last effect run
  twRuns,       \* Typewriter: number of setTimeout calls so far
  twLate,       \* Typewriter: number of timer callbacks run after the unmount
  propChanges,  \* number of prop changes applied so far
  number,       \* Findings: f.number of the finding rendered
  label,        \* Findings: f.label of the finding rendered
  prefix,       \* Findings: the prefix prop computed for its Counter, "unset" before the render
  navPhase,     \* Nav: "absent", "rendered", "live", "unmounted"
  scrollY,      \* window.scrollY
  scrollPending,\* a scroll event is queued for dispatch
  navListeners, \* Nav: number of its scroll listeners registered on window
  scrolled,     \* Nav: state scrolled
  navSeen,      \* Nav: its listener has handled a scroll event
  scrolledBefore \* Nav: its listener has set scrolled to true at some time

ivVars == <<phase, threshold, refEl, el, obsThreshold, observing, isInView, lastFirst, everMet>>
rvVars == <<direction, opacity, transform>>
cVars == <<end, duration, count, cTimers, cCleanup, cDeps, cRuns, cTicks>>
twVars == <<text, displayed, started, twTimeouts, twIntervals, twCleanup, twDeps, twRuns, twLate>>
fVars == <<number, label, prefix>>
navVars == <<navPhase, scrollY, scrollPending, navListeners, scrolled, navSeen, scrolledBefore>>
vars == <<ivVars, rvVars, cVars, twVars, propChanges, fVars, navVars>>

(* ------------------------------ useInView ----------------------------- *)

\* options.threshold || 0.15
Threshold(opt) == IF opt = NoOption \/ opt = 0 THEN DefaultThreshold ELSE opt

\* The entries a browser can report to an observer with threshold th.  An
\* entry whose ratio reaches the threshold is intersecting in every browser;
\* below the threshold isIntersecting depends on the browser.
Entries(th) ==
  {e \in [isIntersecting : BOOLEAN, ratio : Ratios] :
     (e.ratio > 0 /\ e.ratio >= th) => e.isIntersecting}

Batches(th) ==
  UNION {[1..n -> Entries(th)] : n \in 1..MaxBatch}

\* ([entry]) => { if (entry.isIntersecting) setIsInView(true); }
ObserverCallbackResets(flag, batch) == batch[1].isIntersecting
ObserverCallback(flag, batch) == IF batch[1].isIntersecting THEN TRUE ELSE flag

\* The effect of useInView, run once after the first render (its dependency
\* list is empty): without an element it returns at once, with one it
\* creates an observer and registers the element.
UseInViewEffectShared(i) ==
  IF refEl[i]
    THEN /\ el' = [el EXCEPT ![i] = "element"]
         /\ obsThreshold' = [obsThreshold EXCEPT ![i] = Threshold(threshold[i])]
         /\ observing' = [j \in Inst |-> observing[j] + 1]
    ELSE /\ el' = [el EXCEPT ![i] = "null"]
         /\ UNCHANGED <<obsThreshold, observing>>
UseInViewEffect(i) ==
  IF refEl[i]
    THEN /\ el' = [el EXCEPT ![i] = "element"]
         /\ obsThreshold' = [obsThreshold EXCEPT ![i] = Threshold(threshold[i])]
         /\ observing' = [observing EXCEPT ![i] = @ + 1]
    ELSE /\ el' = [el EXCEPT ![i] = "null"]
         /\ UNCHANGED <<obsThreshold, observing>>

\* the cleanup that effect returned, if it returned one: observer.unobserve(el)
UseInViewCleanupKeeps(i) ==
  observing' = observing
UseInViewCleanup(i) ==
  observing' = [observing EXCEPT ![i] = IF el[i] = "element" THEN @ - 1 ELSE @]

\* a later render of the caller attaches the ref to an element
AttachRef(i) ==
  /\ phase[i] = "live"
  /\ ~refEl[i]
  /\ refEl' = [refEl EXCEPT ![i] = TRUE]
  /\ UNCHANGED <<phase, threshold, el, obsThreshold, observing, isInView, lastFirst, everMet>>
  /\ UNCHANGED <<rvVars, cVars, twVars, propChanges, fVars, navVars>>

(* ------------------------------- Reveal ------------------------------- *)

\* CSS transform values: translateX(<px>px), translateY(<px>px), translate(x,y)
TranslateX(px) == [fn |-> "translateX", args |-> <<px>>]
TranslateY(px) == [fn |-> "translateY", args |-> <<px>>]
Translate(x, y) == [fn |-> "translate", args |-> <<x, y>>]

\* where a transform draws the element, relative to its place in the layout:
\* x grows to the right and y grows downwards
Offset(t) ==
  CASE t.fn = "translateX" -> [x |-> t.args[1], y |-> 0]
    [] t.fn = "translateY" -> [x |-> 0, y |-> t.args[1]]
    [] t.fn = "translate" -> [x |-> t.args[1], y |-> t.args[2]]

transforms ==
  [up |-> TranslateY(60), left |-> TranslateX(-60),
   right |-> TranslateX(60), none |-> TranslateY(0)]

Directions == DOMAIN transforms

\* opacity: inView ? 1 : 0
RevealOpacity(inView) == IF inView THEN 1 ELSE 0

\* transform: inView ? "translate(0,0)" : transforms[direction]
RevealTransformKeeps(inView, dir) == transforms[dir]
RevealTransform(inView, dir) == IF inView THEN Translate(0, 0) ELSE transforms[dir]

(* ------------------------------- Counter ------------------------------ *)

\* const step = end / (duration / 16)
Step(e, d) == JSDiv(Num(e), JSDiv(Num(d), Num(StepDivisor)))

\* clearInterval(id)
ClearKeeps(timers, id) == timers
Clear(timers, id) == {t \in timers : t.id # id}

\* if (start >= end)
FinishedStrict(start, e) == JSGe(start, Num(e)) /\ start # Num(e)
Finished(start, e) == JSGe(start, Num(e))

\* the value the callback passes to setCount after start += step
TickValueUnclamped(start, e) == JSFloor(start)
TickValue(start, e) == IF Finished(start, e) THEN Num(e) ELSE JSFloor(start)

\* the body of Counter's effect, after the cleanup of the previous run
CounterEffect(timers) ==
  /\ cDeps' = <<isInView'["Counter"], end', duration'>>
  /\ IF ~isInView'["Counter"]
       THEN /\ cTimers' = timers
            /\ cCleanup' = 0
            /\ UNCHANGED <<cRuns, cTicks>>
       ELSE /\ cRuns' = cRuns + 1
            /\ cTimers' = timers \cup
                 {[id |-> cRuns + 1, start |-> Num(0), step |-> Step(end', duration'), end |-> end']}
            /\ cCleanup' = cRuns + 1
            /\ cTicks' = 0

\* one firing of the interval callback of timer t
CounterTick(t) ==
  /\ t \in cTimers
  /\ LET s == JSAdd(t.start, t.step)
     IN /\ count' = IF phase["Counter"] = "live" THEN TickValue(s, t.end) ELSE count
        /\ cTimers' = IF Finished(s, t.end)
                        THEN Clear(cTimers, t.id)
                        ELSE (cTimers \ {t}) \cup {[t EXCEPT !.start = s]}
  /\ cTicks' = IF cTicks < MaxTicksCounted THEN cTicks + 1 ELSE cTicks
  /\ UNCHANGED <<ivVars, rvVars, twVars, propChanges, fVars, navVars, end, duration, cCleanup, cDeps, cRuns>>

\* an effect runs again after a render when its dependency values differ
\* from those of its last run
DepsAlways(old, new) == TRUE
DepsChanged(old, new) == old # new

\* a re-render of Counter whose dependencies [inView, end, duration] changed:
\* the cleanup of the previous run, then the effect
CounterRenderNoCleanup ==
  /\ phase["Counter"] = "live"
  /\ DepsChanged(cDeps, <<isInView["Counter"], end, duration>>)
  /\ UNCHANGED <<ivVars, rvVars, twVars, propChanges, fVars, navVars, end, duration, count>>
  /\ CounterEffect(cTimers)
CounterRender ==
  /\ phase["Counter"] = "live"
  /\ DepsChanged(cDeps, <<isInView["Counter"], end, duration>>)
  /\ UNCHANGED <<ivVars, rvVars, twVars, propChanges, fVars, navVars, end, duration, count>>
  /\ CounterEffect(Clear(cTimers, cCleanup))

\* the values a parent changes the props of a Counter to
PropEnds == {0, 2}
PropDurations == {TickMs, 40}

\* the parent renders Counter with another end or duration
CounterSetProps(e, d) ==
  /\ phase["Counter"] = "live"
  /\ propChanges < MaxPropChanges
  /\ <<e, d>> # <<end, duration>>
  /\ end' = e
  /\ duration' = d
  /\ propChanges' = propChanges + 1
  /\ UNCHANGED <<count, cTimers, cCleanup, cDeps, cRuns, cTicks>>
  /\ UNCHANGED <<ivVars, rvVars, twVars, fVars, navVars>>

(* ------------------------------ Typewriter ---------------------------- *)

\* text.slice(0, n)
SliceAhead(t, n) == SubSeq(t, 1, IF n + 1 < Len(t) THEN n + 1 ELSE Len(t))
Slice(t, n) == SubSeq(t, 1, IF n < Len(t) THEN n ELSE Len(t))

\* clearTimeout(id)
ClearTimeout(timers, id) == {t \in timers : t.id # id}

\* the effect goes on past "if (!inView || started) return"
TriggersWithoutStarted(inView, st) == inView
Triggers(inView, st) == ~(~inView \/ st)

\* the body of Typewriter's effect, after the cleanup of the previous run;
\* speed and delay are dependencies too, they are constant in this model
TypewriterEffect(timeouts) ==
  /\ twDeps' = <<isInView'["Typewriter"], started, text'>>
  /\ IF ~Triggers(isInView'["Typewriter"], started)
       THEN /\ twTimeouts' = timeouts
            /\ twCleanup' = 0
            /\ UNCHANGED <<started, twRuns>>
       ELSE /\ started' = TRUE
            /\ twRuns' = twRuns + 1
            /\ twTimeouts' = timeouts \cup {[id |-> twRuns + 1, text |-> text']}
            /\ twCleanup' = twRuns + 1

\* the delay timer t fires: its callback starts the per-character interval
\* (the function this callback returns is dropped by setTimeout)
TimeoutFire(t) ==
  /\ t \in twTimeouts
  /\ twTimeouts' = twTimeouts \ {t}
  /\ twIntervals' = twIntervals \cup {[id |-> t.id, i |-> 0, text |-> t.text]}
  /\ twLate' = IF phase["Typewriter"] = "unmounted" THEN twLate + 1 ELSE twLate
  /\ UNCHANGED <<ivVars, rvVars, cVars, propChanges, fVars, navVars, text, displayed, started, twCleanup, twDeps, twRuns>>

\* if (i >= text.length)
LastCharacterStrict(i, t) == i > Len(t)
LastCharacter(i, t) == i >= Len(t)

\* one firing of the per-character interval v
IntervalTick(v) ==
  /\ v \in twIntervals
  /\ displayed' = IF phase["Typewriter"] = "live" THEN Slice(v.text, v.i + 1) ELSE displayed
  /\ twIntervals' = IF LastCharacter(v.i + 1, v.text)
                      THEN Clear(twIntervals, v.id)
                      ELSE (twIntervals \ {v}) \cup {[v EXCEPT !.i = v.i + 1]}
  /\ twLate' = IF phase["Typewriter"] = "unmounted" THEN twLate + 1 ELSE twLate
  /\ UNCHANGED <<ivVars, rvVars, cVars, propChanges, fVars, navVars, text, started, twTimeouts, twCleanup, twDeps, twRuns>>

\* a re-render of Typewriter whose dependencies [inView, started, text, speed, delay] changed
TypewriterRender ==
  /\ phase["Typewriter"] = "live"
  /\ DepsChanged(twDeps, <<isInView["Typewriter"], started, text>>)
  /\ UNCHANGED <<ivVars, rvVars, cVars, propChanges, fVars, navVars, text, displayed, twIntervals, twLate>>
  /\ TypewriterEffect(ClearTimeout(twTimeouts, twCleanup))

\* the parent renders Typewriter with another text
TypewriterSetText(t) ==
  /\ phase["Typewriter"] = "live"
  /\ propChanges < MaxPropChanges
  /\ t # text
  /\ text' = t
  /\ propChanges' = propChanges + 1
  /\ UNCHANGED <<ivVars, rvVars, cVars, displayed, started, twTimeouts, twIntervals, twCleanup, twDeps, twRuns, twLate>>
  /\ UNCHANGED <<fVars, navVars>>

(* ------------------------------ Findings ------------------------------ *)

\* the small finding numbers, and the large ones of the page
Numbers == (0..MaxNumber) \cup {100, 1000}

LabelChars == {"$", "M"}

\* the four findings of the page, their labels cut to two characters
findings ==
  {[number |-> 100, label |-> <<"M", "o">>], [number |-> 19, label |-> <<"R", "e">>],
   [number |-> 20, label |-> <<"G", "M">>], [number |-> 1000, label |-> <<"C", "r">>]}

\* labels: every string of up to two of LabelChars, and those of the page
Labels ==
  {<<>>} \cup {<<c>> : c \in LabelChars} \cup {<<c, d>> : c \in LabelChars, d \in LabelChars}
    \cup {f.label : f \in findings}

\* f.label[0], undefined for the empty string
FirstChar(l) == IF Len(l) >= 1 THEN l[1] ELSE "undefined"

\* f.number >= 20 ? "$" === f.label[0] ? "$" : "" : ""
PrefixAnyNumber(n, l) == IF "$" = FirstChar(l) THEN "$" ELSE ""
Prefix(n, l) == IF n >= 20 THEN (IF "$" = FirstChar(l) THEN "$" ELSE "") ELSE ""

\* Findings renders the Counter of a finding
FindingsRender ==
  /\ prefix = "unset"
  /\ prefix' = Prefix(number, label)
  /\ UNCHANGED <<number, label>>
  /\ UNCHANGED <<ivVars, rvVars, cVars, twVars, propChanges, navVars>>

(* --------------------------------- Nav -------------------------------- *)

ScrollPositions == {0, 50, 99, 100, 101, 200, 500}

\* the value onScroll passes to setScrolled: window.scrollY > 100
OnScrollInclusive(y) == y >= 100
OnScroll(y) == y > 100

\* the effect of Nav, run once after its first render
NavMount ==
  /\ navPhase = "rendered"
  /\ navPhase' = "live"
  /\ navListeners' = navListeners + 1
  /\ UNCHANGED <<scrollY, scrollPending, scrolled, navSeen, scrolledBefore>>
  /\ UNCHANGED <<ivVars, rvVars, cVars, twVars, propChanges, fVars>>

\* the page is scrolled to y; the browser queues a scroll event
ScrollTo(y) ==
  /\ y # scrollY
  /\ scrollY' = y
  /\ scrollPending' = TRUE
  /\ UNCHANGED <<navPhase, navListeners, scrolled, navSeen, scrolledBefore>>
  /\ UNCHANGED <<ivVars, rvVars, cVars, twVars, propChanges, fVars>>

\* the queued scroll event is dispatched to the listeners on window
ScrollEvent ==
  /\ scrollPending
  /\ scrollPending' = FALSE
  /\ IF navListeners > 0 /\ navPhase = "live"
       THEN /\ scrolled' = OnScroll(scrollY)
            /\ navSeen' = TRUE
            /\ scrolledBefore' = (scrolledBefore \/ OnScroll(scrollY))
       ELSE UNCHANGED <<scrolled, navSeen, scrolledBefore>>
  /\ UNCHANGED <<navPhase, scrollY, navListeners>>
  /\ UNCHANGED <<ivVars, rvVars, cVars, twVars, propChanges, fVars>>

\* Nav is removed: the cleanup of its effect removes the listener
NavUnmount ==
  /\ navPhase \in {"rendered", "live"}
  /\ navPhase' = "unmounted"
  /\ navListeners' = IF navPhase = "live" THEN navListeners - 1 ELSE navListeners
  /\ UNCHANGED <<scrollY, scrollPending, scrolled, navSeen, scrolledBefore>>
  /\ UNCHANGED <<ivVars, rvVars, cVars, twVars, propChanges, fVars>>

(* ------------------------------ lifecycle ----------------------------- *)

\* the first flush of effects of instance i: useInView's, then the component's
Mount(i) ==
  /\ phase[i] = "rendered"
  /\ phase' = [phase EXCEPT ![i] = "live"]
  /\ UseInViewEffect(i)
  /\ UNCHANGED <<threshold, refEl, isInView, lastFirst, everMet, rvVars, propChanges, fVars, navVars>>
  /\ IF i = "Counter"
       THEN /\ UNCHANGED <<end, duration, count>>
            /\ CounterEffect(cTimers)
       ELSE UNCHANGED cVars
  /\ IF i = "Typewriter"
       THEN /\ UNCHANGED <<text, displayed, twIntervals, twLate>>
            /\ TypewriterEffect(twTimeouts)
       ELSE UNCHANGED twVars

\* The browser delivers a batch of entries to the observer of instance i;
\* a Reveal is rendered again with the new flag.
Notify(i, batch) ==
  /\ phase[i] = "live"
  /\ observing[i] > 0
  /\ isInView' = [isInView EXCEPT ![i] = ObserverCallback(isInView[i], batch)]
  /\ lastFirst' = [lastFirst EXCEPT ![i] = IF batch[1].isIntersecting THEN "hit" ELSE "miss"]
  /\ everMet' = [everMet EXCEPT ![i] = @ \/ \E k \in DOMAIN batch : batch[k].ratio >= obsThreshold[i]]
  /\ IF i = "Reveal"
       THEN /\ opacity' = RevealOpacity(isInView'[i])
            /\ transform' = RevealTransform(isInView'[i], direction)
            /\ UNCHANGED direction
       ELSE UNCHANGED rvVars
  /\ UNCHANGED <<phase, threshold, refEl, el, obsThreshold, observing, cVars, twVars, propChanges, fVars, navVars>>

\* instance i is removed: the cleanups of its last effect runs are called
Unmount(i) ==
  /\ phase[i] \in {"rendered", "live"}
  /\ phase' = [phase EXCEPT ![i] = "unmounted"]
  /\ UseInViewCleanup(i)
  /\ UNCHANGED <<threshold, refEl, el, obsThreshold, isInView, lastFirst, everMet, rvVars, propChanges, fVars, navVars>>
  /\ IF i = "Counter"
       THEN /\ cTimers' = Clear(cTimers, cCleanup)
            /\ UNCHANGED <<end, duration, count, cCleanup, cDeps, cRuns, cTicks>>
       ELSE UNCHANGED cVars
  /\ IF i = "Typewriter"
       THEN /\ twTimeouts' = ClearTimeout(twTimeouts, twCleanup)
            /\ UNCHANGED <<text, displayed, started, twIntervals, twCleanup, twDeps, twRuns, twLate>>
       ELSE UNCHANGED twVars

(* --------------------------- specifications --------------------------- *)

InitCommon ==
  /\ threshold \in [Inst -> ThresholdOptions \cup {CounterThreshold, TypewriterThreshold, RevealThreshold}]
  /\ threshold["Counter"] = CounterThreshold
  /\ threshold["Typewriter"] = TypewriterThreshold
  /\ threshold["Reveal"] = RevealThreshold
  /\ threshold["Hook"] \in ThresholdOptions
  /\ refEl \in [Inst -> BOOLEAN]
  /\ \A i \in Inst \ {"Hook"} : refEl[i]
  /\ el = [i \in Inst |-> "unset"]
  /\ obsThreshold = [i \in Inst |-> NoOption]
  /\ observing = [i \in Inst |-> 0]
  /\ isInView = [i \in Inst |-> FALSE]
  /\ lastFirst = [i \in Inst |-> "none"]
  /\ everMet = [i \in Inst |-> FALSE]
  /\ direction \in Directions
  /\ opacity = RevealOpacity(FALSE)
  /\ transform = RevealTransform(FALSE, direction)
  /\ end \in 0..MaxEnd
  /\ duration \in Durations
  /\ count = Num(0)
  /\ cTimers = {}
  /\ cCleanup = 0
  /\ cDeps = <<>>
  /\ cRuns = 0
  /\ cTicks = 0
  /\ text \in Texts
  /\ displayed = <<>>
  /\ started = FALSE
  /\ twTimeouts = {}
  /\ twIntervals = {}
  /\ twCleanup = 0
  /\ twDeps = <<>>
  /\ twRuns = 0
  /\ twLate = 0
  /\ propChanges = 0

\* no finding is rendered
NoFindings == number = 0 /\ label = <<>> /\ prefix = "unset"

\* the page has no Nav and is not scrolled
NoNav ==
  /\ navPhase = "absent"
  /\ scrollY = 0
  /\ scrollPending = FALSE
  /\ navListeners = 0
  /\ scrolled = FALSE
  /\ navSeen = FALSE
  /\ scrolledBefore = FALSE

Present(S) == phase = [i \in Inst |-> IF i \in S THEN "rendered" ELSE "absent"]

\* a page holding one Counter
InitCounter ==
  /\ NoFindings
  /\ NoNav
  /\ InitCommon
  /\ Present({"Counter"})
  /\ threshold["Hook"] = NoOption
  /\ refEl["Hook"]
  /\ direction = "up"
  /\ text = <<>>

NextCounter ==
  \/ Mount("Counter")
  \/ \E b \in Batches(Threshold(CounterThreshold)) : Notify("Counter", b)
  \/ CounterRender
  \/ \E t \in cTimers : CounterTick(t)
  \/ Unmount("Counter")

SpecCounter == InitCounter /\ [][NextCounter]_vars

\* the same page, with a parent that changes end and duration
NextCounterProps ==
  \/ NextCounter
  \/ \E e \in PropEnds, d \in PropDurations : CounterSetProps(e, d)

SpecCounterProps == InitCounter /\ [][NextCounterProps]_vars

\* CounterRender can take a step: a re-render with changed dependencies is due
CounterRenderDue ==
  /\ phase["Counter"] = "live"
  /\ DepsChanged(cDeps, <<isInView["Counter"], end, duration>>)

\* the steps of CounterRender: only Mount, which changes phase, sets cDeps too
CounterRenderStep == cDeps' # cDeps /\ phase' = phase

\* CounterTick can take a step: a timer is pending whose callback changes
\* the state (a callback that leaves its accumulator and the displayed value
\* as they are repeats the same state once cTicks has stopped counting)
CounterTickDue ==
  \E t \in cTimers :
    \/ cTicks < MaxTicksCounted
    \/ JSAdd(t.start, t.step) # t.start
    \/ Finished(JSAdd(t.start, t.step), t.end)
    \/ phase["Counter"] = "live" /\ TickValue(JSAdd(t.start, t.step), t.end) # count

\* the steps of CounterTick: only ticks change cTimers or cTicks and leave
\* cDeps and phase alone
CounterTickStep ==
  (cTimers' # cTimers \/ cTicks' # cTicks) /\ cDeps' = cDeps /\ phase' = phase

\* The event loop runs every pending effect flush and every pending timer:
\* weak fairness of Mount, CounterRender and CounterTick.  For the last two
\* WF_vars(A) is written out as []<>~ENABLED <<A>>_vars \/ []<><<A>>_vars
\* with the enabling condition and the steps of A stated directly.
FairCounter ==
  /\ SpecCounter
  /\ WF_vars(Mount("Counter"))
  /\ ([]<>(~CounterRenderDue) \/ []<><<CounterRenderStep>>_vars)
  /\ ([]<>(~CounterTickDue) \/ []<><<CounterTickStep>>_vars)

\* a page holding one Typewriter whose props never change
InitTypewriter ==
  /\ NoFindings
  /\ NoNav
  /\ InitCommon
  /\ Present({"Typewriter"})
  /\ threshold["Hook"] = NoOption
  /\ refEl["Hook"]
  /\ direction = "up"
  /\ end = 0
  /\ duration = 0

NextTypewriter ==
  \/ Mount("Typewriter")
  \/ \E b \in Batches(Threshold(TypewriterThreshold)) : Notify("Typewriter", b)
  \/ TypewriterRender
  \/ \E t \in twTimeouts : TimeoutFire(t)
  \/ \E v \in twIntervals : IntervalTick(v)
  \/ Unmount("Typewriter")

SpecTypewriter == InitTypewriter /\ [][NextTypewriter]_vars

TypewriterFairness ==
  /\ WF_vars(Mount("Typewriter"))
  /\ WF_vars(TypewriterRender)
  /\ WF_vars(\E t \in twTimeouts : TimeoutFire(t))
  /\ WF_vars(\E v \in twIntervals : IntervalTick(v))

FairTypewriter ==
  /\ SpecTypewriter
  /\ WF_vars(Mount("Typewriter"))
  /\ WF_vars(TypewriterRender)
  /\ WF_vars(\E t \in twTimeouts : TimeoutFire(t))
  /\ WF_vars(\E v \in twIntervals : IntervalTick(v))

\* the same page, with a parent that changes the text
NextTypewriterProps ==
  \/ NextTypewriter
  \/ \E t \in PropTexts : TypewriterSetText(t)

SpecTypewriterProps == InitTypewriter /\ [][NextTypewriterProps]_vars

FairTypewriterProps == SpecTypewriterProps /\ TypewriterFairness

\* a page holding a bare useInView hook and a Reveal
InitInView ==
  /\ NoFindings
  /\ NoNav
  /\ InitCommon
  /\ Present({"Hook", "Reveal"})
  /\ end = 0
  /\ duration = 0
  /\ text = <<>>

NextInView ==
  \/ \E i \in {"Hook", "Reveal"} : Mount(i)
  \/ \E i \in {"Hook", "Reveal"} : AttachRef(i)
  \/ \E i \in {"Hook", "Reveal"} : \E b \in Batches(obsThreshold[i]) : Notify(i, b)
  \/ \E i \in {"Hook", "Reveal"} : Unmount(i)

SpecInView == InitInView /\ [][NextInView]_vars

\* React runs the effects of every rendered instance
FairInView ==
  /\ SpecInView
  /\ WF_vars(Mount("Hook"))
  /\ WF_vars(Mount("Reveal"))

\* a page holding a Counter and a Typewriter side by side
PageInst == {"Counter", "Typewriter"}

InitPage ==
  /\ NoFindings
  /\ NoNav
  /\ InitCommon
  /\ Present(PageInst)
  /\ threshold["Hook"] = NoOption
  /\ refEl["Hook"]
  /\ direction = "up"
  /\ end = 1
  /\ duration = TickMs + 1
  /\ text = <<"a", "b">>

NextPage ==
  \/ \E i \in PageInst : Mount(i)
  \/ \E i \in PageInst : \E b \in Batches(obsThreshold[i]) : Notify(i, b)
  \/ CounterRender
  \/ \E t \in cTimers : CounterTick(t)
  \/ TypewriterRender
  \/ \E t \in twTimeouts : TimeoutFire(t)
  \/ \E v \in twIntervals : IntervalTick(v)
  \/ \E i \in PageInst : Unmount(i)

SpecPage == InitPage /\ [][NextPage]_vars

\* a page on which no useInView instance, Counter or Typewriter is rendered
InitIdle ==
  /\ direction = "up"
  /\ end = 0
  /\ duration = 0
  /\ text = <<>>
  /\ InitCommon
  /\ Present({})
  /\ threshold["Hook"] = NoOption
  /\ refEl["Hook"]

\* Findings renders one finding
InitFindings ==
  /\ InitIdle
  /\ NoNav
  /\ number \in Numbers
  /\ label \in Labels
  /\ prefix = "unset"

NextFindings == FindingsRender

SpecFindings == InitFindings /\ [][NextFindings]_vars

\* a page holding Nav, loaded at any scroll position
InitNav ==
  /\ InitIdle
  /\ NoFindings
  /\ navPhase = "rendered"
  /\ scrollY \in ScrollPositions
  /\ scrollPending = FALSE
  /\ navListeners = 0
  /\ scrolled = FALSE
  /\ navSeen = FALSE
  /\ scrolledBefore = FALSE

NextNav ==
  \/ NavMount
  \/ \E y \in ScrollPositions : ScrollTo(y)
  \/ ScrollEvent
  \/ NavUnmount

SpecNav == InitNav /\ [][NextNav]_vars

(* ------------------------------- claims ------------------------------- *)

Live(i) == phase[i] = "live"
Unmounted(i) == phase[i] = "unmounted"

\* C1: under any sequence of intersection notifications the isInView flag of
\* a useInView instance never goes back from true to false, so it changes at
\* most once, whatever the threshold.
C1_FlagNeverResets ==
  [][\A i \in Inst : isInView[i] => isInView'[i]]_vars

\* the flag is true and the last batch delivered began with a non-intersecting entry
C1_Witness ==
  \E i \in {"Hook", "Reveal"} : Live(i) /\ isInView[i] /\ lastFirst[i] = "miss"

\* C2 (as claimed): once a mounted Typewriter is visible and its timers and
\* effects keep running, the displayed string eventually equals text.
C2_EventuallyFullText ==
  (Live("Typewriter") /\ isInView["Typewriter"])
     ~> (displayed = text \/ Unmounted("Typewriter"))

\* the ramp of the Counter is over: the effect has run, no timer is pending
\* and the displayed value is end
CounterDone == cRuns >= 1 /\ cTimers = {} /\ count = Num(end)

\* C3: for duration > 0, a visible Counter whose timer keeps firing eventually
\* displays exactly end with its timer cancelled, and once it has, the
\* displayed value never changes again.
C3_ReachesEnd ==
  /\ (Live("Counter") /\ isInView["Counter"] /\ duration > 0)
        ~> (CounterDone \/ Unmounted("Counter"))
  /\ [][(duration > 0 /\ CounterDone) => count' = Num(end)]_vars

\* a ramp of several ticks has ended on a positive end
C3_Witness ==
  Live("Counter") /\ duration > 0 /\ end > 0 /\ cTicks >= 3 /\ CounterDone

\* C4: for duration > 0 the displayed value of a Counter is at every moment a
\* number between 0 and end, and no step decreases it.
C4_MonotoneClamped ==
  /\ [](duration > 0 => (IsNumber(count) /\ JSGe(count, Num(0)) /\ JSGe(Num(end), count)))
  /\ [][duration > 0 => JSGe(count', count)]_vars

\* the ramp is under way: the displayed value is strictly between 0 and end
C4_Witness ==
  /\ Live("Counter") /\ duration > 0 /\ cTimers # {}
  /\ JSGe(count, Num(2)) /\ count # Num(end)

\* C5 (as claimed): a visible Counter with end = 0 never has an interval
\* timer pending.
C5_NoTimerWhenEndZero ==
  (end = 0 /\ isInView["Counter"]) => cTimers = {}

\* C6 (as claimed): with duration = 0 the displayed value of a Counter is
\* always a number between 0 and end.
C6_ZeroDurationIsNumber ==
  duration = 0 => (IsNumber(count) /\ JSGe(count, Num(0)) /\ JSGe(Num(end), count))

\* C7 (as claimed): after the unmount of a Typewriter no timer of it is
\* pending and no timer callback of it has run.
C7_UnmountCancelsTimers ==
  Unmounted("Typewriter") => (twTimeouts = {} /\ twIntervals = {} /\ twLate = 0)

\* C8: after the unmount of a Counter no interval timer of it is pending, and
\* its displayed value does not change any more.
C8_UnmountCancelsInterval ==
  /\ [](Unmounted("Counter") => cTimers = {})
  /\ [][Unmounted("Counter") => count' = count]_vars

\* the Counter was unmounted in the middle of its ramp
C8_Witness ==
  /\ Unmounted("Counter") /\ cRuns = 1 /\ cTicks >= 1
  /\ IsNumber(count) /\ count # Num(end) /\ count # Num(0)

\* C9: within one mount of a Typewriter, whatever the number of
\* re-evaluations of its effect, the delay timer is scheduled at most once, at
\* most one delay timer and at most one interval timer are pending, started is
\* true exactly when the sequence was triggered and never goes back to false,
\* and a visible mounted Typewriter does get started.
C9_TriggeredOnce ==
  /\ [](/\ twRuns <= 1
        /\ Cardinality(twTimeouts) + Cardinality(twIntervals) <= 1
        /\ started <=> (twRuns = 1))
  /\ [][started => started']_vars
  /\ (Live("Typewriter") /\ isInView["Typewriter"])
        ~> (started \/ Unmounted("Typewriter"))

\* the effect was evaluated again, visible and started, after a change of text
\* while the interval of the one reveal sequence is running
C9_Witness ==
  /\ Live("Typewriter") /\ propChanges = 1
  /\ twDeps = <<TRUE, TRUE, text>>
  /\ twIntervals # {}

IsPrefix(p, t) == Len(p) <= Len(t) /\ p = SubSeq(t, 1, Len(p))

\* C10: the displayed string of a Typewriter is always a prefix of text, it
\* changes only by growing by one character, and each tick of the
\* per-character interval grows it by one character until the full text is
\* shown.
C10_PrefixGrowsByOne ==
  /\ [](IsPrefix(displayed, text))
  /\ [][/\ displayed' # displayed => Len(displayed') = Len(displayed) + 1
        /\ (Live("Typewriter") /\ twIntervals' # twIntervals /\ twTimeouts' = twTimeouts
              /\ displayed # text)
             => Len(displayed') = Len(displayed) + 1]_vars

\* the reveal is under way: two characters shown, more to come
C10_Witness ==
  Live("Typewriter") /\ Len(displayed) = 2 /\ displayed # text /\ twIntervals # {}

\* C11: once the tick that brings the displayed value of a Counter to end has
\* run, its interval timer is cancelled and the animation does not restart:
\* no later notification or re-render schedules a timer or changes the
\* displayed value away from end.
C11_NoRestart ==
  /\ []((cRuns >= 1 /\ cTicks >= 1 /\ count = Num(end)) => cTimers = {})
  /\ [][(CounterDone /\ cTicks >= 1)
          => (cTimers' = {} /\ cRuns' = cRuns /\ count' = Num(end))]_vars

\* the ramp of a mounted Counter is over and a later batch has been delivered
\* that began with a non-intersecting entry
C11_Witness ==
  /\ Live("Counter") /\ CounterDone /\ end > 0 /\ cTicks >= 2
  /\ lastFirst["Counter"] = "miss"

\* C12 (as claimed): for duration > 0 a Counter runs at most ceil(duration/16)
\* ticks between becoming visible and the cancellation of its timer.
C12_AtMostCeilTicks ==
  LET ceiling == (duration + StepDivisor - 1) \div StepDivisor
  IN (duration > 0 /\ cRuns >= 1) => cTicks <= ceiling

\* C13: the rendered style of a Reveal follows its flag and its direction:
\* flag false gives opacity 0 and the offset of the direction, flag true
\* gives opacity 1 and the zero offset, and a mounted Reveal that has shown
\* opacity 1 never shows opacity 0 again.
C13_StyleFollowsFlag ==
  /\ [](phase["Reveal"] \in {"rendered", "live"} =>
          IF isInView["Reveal"]
            THEN opacity = 1 /\ transform = Translate(0, 0)
            ELSE opacity = 0 /\ transform = transforms[direction])
  /\ [][(phase["Reveal"] # "absent" /\ opacity = 1) => opacity' = 1]_vars

\* a visible Reveal sliding in from the left got a batch that began with a
\* non-intersecting entry
C13_Witness ==
  /\ Live("Reveal") /\ isInView["Reveal"] /\ direction = "left"
  /\ opacity = 1 /\ lastFirst["Reveal"] = "miss"

\* C14 (as claimed): after a notification the flag of a mounted useInView
\* instance is true exactly when some entry delivered so far, at any position
\* of any batch, had a ratio at or above the threshold.
C14_FlagIffReported ==
  \A i \in Inst :
    (Live(i) /\ lastFirst[i] # "none") => (isInView[i] <=> everMet[i])

\* C15 (as claimed): the threshold of the observer is the configured one for
\* every configured fraction from 0 to 1, and 0.15 exactly when none is
\* configured.
C15_ThresholdAsConfigured ==
  \A i \in Inst :
    observing[i] > 0 =>
      /\ threshold[i] # NoOption => obsThreshold[i] = threshold[i]
      /\ obsThreshold[i] = DefaultThreshold <=> threshold[i] = NoOption

\* C16 (as claimed): an effect that finds no element registers nothing, and
\* once the element is there while the instance is mounted an observation of
\* it is eventually registered.
C16_RetryRegisters ==
  /\ [](\A i \in Inst : el[i] = "null" => observing[i] = 0)
  /\ \A i \in {"Hook", "Reveal"} :
       (Live(i) /\ refEl[i]) ~> (observing[i] > 0 \/ Unmounted(i))

\* C17: an instance whose effect found its element holds exactly one
\* observation while it is mounted; before its effect has run and after its
\* unmount it holds none, whatever the other instances do.
C17_OneRegistration ==
  \A i \in Inst :
    /\ (Live(i) /\ el[i] = "element") => observing[i] = 1
    /\ phase[i] \in {"absent", "rendered", "unmounted"} => observing[i] = 0
    /\ observing[i] <= 1

\* the hook was unmounted after a notification while the Reveal goes on
\* observing
C17_Witness ==
  /\ Unmounted("Hook") /\ el["Hook"] = "element" /\ lastFirst["Hook"] # "none"
  /\ Live("Reveal") /\ observing["Reveal"] = 1 /\ lastFirst["Reveal"] # "none"

\* what instance i owns: the state of its useInView and of its component
InstanceState(i) ==
  <<phase[i], el[i], obsThreshold[i], observing[i], isInView[i], lastFirst[i], everMet[i],
    CASE i = "Reveal" -> <<opacity, transform>>
      [] i = "Counter" -> <<count, cTimers, cCleanup, cDeps, cRuns, cTicks>>
      [] i = "Typewriter" -> <<displayed, started, twTimeouts, twIntervals, twCleanup, twDeps, twRuns, twLate>>
      [] OTHER -> <<>> >>

\* C18: a step of one instance (a notification, a timer tick, an effect run,
\* its unmount) leaves the flag, the displayed value or text, started and the
\* pending timers of every other instance unchanged: no step changes the
\* state of two instances.
C18_Frame ==
  [][\A i, j \in Inst :
       i # j => (InstanceState(i)' = InstanceState(i) \/ InstanceState(j)' = InstanceState(j))]_vars

\* the Counter is in the middle of its ramp while the Typewriter types
C18_Witness ==
  /\ \A i \in PageInst : Live(i) /\ isInView[i]
  /\ cTimers # {} /\ cTicks = 1
  /\ twIntervals # {} /\ Len(displayed) = 1

\* C19: the displayed text of a Typewriter changes only once the delay timer
\* has fired, the per-character interval is started only by the firing of the
\* delay timer, and the tick that shows the full string cancels it, after
\* which no timer of the Typewriter is pending.
C19_DelayThenInterval ==
  /\ [][displayed' # displayed => (twTimeouts = {} /\ twIntervals # {})]_vars
  /\ [][(twIntervals = {} /\ twIntervals' # {})
          => (twTimeouts # {} /\ twTimeouts' = {})]_vars
  /\ [][(Live("Typewriter") /\ twIntervals # {} /\ twIntervals' # twIntervals
           /\ displayed' = text)
          => (twIntervals' = {} /\ twTimeouts' = {})]_vars
  /\ []((Live("Typewriter") /\ text # <<>> /\ displayed = text)
          => (twIntervals = {} /\ twTimeouts = {}))

\* the whole of a text of two characters or more is shown and no timer is left
C19_Witness ==
  /\ Live("Typewriter") /\ Len(text) >= 2 /\ displayed = text
  /\ twIntervals = {} /\ twTimeouts = {}

\* C20 (as claimed): for duration > 0, after the k-th tick of a visible
\* Counter the displayed value is floor(k * end / (duration / 16)) while that
\* is below end, and end otherwise.
C20_ValueAfterTick ==
  LET k == cTicks
      \* k * end / (duration / 16) is (k * 16 * end) / duration
      below == k * StepDivisor * end < end * duration
      ramp == IF below THEN (k * StepDivisor * end) \div duration ELSE end
  IN (Live("Counter") /\ duration > 0 /\ cRuns = 1 /\ k >= 1 /\ k < MaxTicksCounted)
       => count = Num(ramp)

\* C21 (as claimed): while the flag of a Reveal is false its content is
\* drawn, relative to its final position, 60 units below for up, 60 units to
\* the right for left, 60 units to the left for right, and in place for none.
C21_OffsetByDirection ==
  (phase["Reveal"] \in {"rendered", "live"} /\ ~isInView["Reveal"]) =>
    Offset(transform) =
      CASE direction = "up" -> [x |-> 0, y |-> 60]
        [] direction = "left" -> [x |-> 60, y |-> 0]
        [] direction = "right" -> [x |-> -60, y |-> 0]
        [] direction = "none" -> [x |-> 0, y |-> 0]

\* C22 (as claimed): the prefix Findings computes for a Counter is the empty
\* string for every finding number and every label.
C22_PrefixAlwaysEmpty ==
  prefix # "unset" => prefix = ""

\* C22 (amended): the prefix is "$" exactly when the number is at least 20
\* and the label begins with "$", and the empty string otherwise; it is
\* empty for the four findings of the page.
C22_PrefixDollarOnly ==
  prefix # "unset" =>
    /\ prefix \in {"", "$"}
    /\ prefix = "$" <=> (number >= 20 /\ Len(label) >= 1 /\ label[1] = "$")
    /\ [number |-> number, label |-> label] \in findings => prefix = ""

\* a finding of 20 whose label begins with "$" was rendered with the prefix "$"
C22_Witness ==
  prefix = "$" /\ number = 20 /\ label = <<"$", "M">>

\* C23: at most one interval timer of a Counter is pending at any time, also
\* when end or duration change while it is visible: the effect run that sets
\* a timer leaves that timer alone pending, with an accumulator of 0 and the
\* step of the new props.
C23_OneTimer ==
  /\ [](Cardinality(cTimers) <= 1)
  /\ [][cRuns' # cRuns =>
          cTimers' = {[id |-> cRuns', start |-> Num(0),
                       step |-> Step(end', duration'), end |-> end']}]_vars

\* the props changed after the first ramp had counted up, and the second ramp
\* is under way
C23_Witness ==
  /\ Live("Counter") /\ propChanges = 1 /\ cRuns = 2
  /\ Cardinality(cTimers) = 1 /\ cTicks >= 1

\* C24: while Nav is mounted its scrolled flag is (scrollY > 100) after every
\* scroll event, so it goes back to false when the page is scrolled up; from
\* the mount to the first scroll event it is false whatever the scroll
\* position; after the unmount no listener of Nav is registered and no
\* scroll event changes its state.
C24_ScrolledFollowsEvents ==
  /\ [][(navPhase = "live" /\ scrollPending /\ ~scrollPending')
          => (scrolled' <=> scrollY' > 100)]_vars
  /\ []((navPhase \in {"rendered", "live"} /\ ~navSeen) => ~scrolled)
  /\ [](navPhase = "unmounted" => navListeners = 0)
  /\ [][navPhase = "unmounted" => scrolled' = scrolled]_vars

\* a mounted Nav that was scrolled past 100 is back at exactly 100 and its
\* flag is false again
C24_Witness ==
  /\ navPhase = "live" /\ scrolledBefore /\ ~scrollPending
  /\ scrollY = 100 /\ ~scrolled

====
